---- MODULE Spec2Model ----
(***************************************************************************)
(* Model of lib/src/gitattributes.rs (GitAttributesFile): a stack of       *)
(* gitattributes pattern lists plus a list of ignore-filter names, with    *)
(* the operations new, chain, chain_with_file and matches.                 *)
(*                                                                         *)
(* Strings are sequences of one-character strings, so that strip_suffix,   *)
(* starts_with, ends_with and glob matching are computed character by      *)
(* character.  The file name ".gitattributes" is one element of such a     *)
(* sequence (no path or glob of the model contains it).                    *)
(*                                                                         *)
(* The searches themselves are done by the gix-attributes / gix-glob       *)
(* crates; the operators that model them are mapped to the call sites in   *)
(* gitattributes.rs.  Attribute macros, character classes and backslash    *)
(* escapes are outside the input alphabet of the model.                    *)
(***************************************************************************)
EXTENDS Naturals, Sequences, FiniteSets, TLC

VARIABLES heap, env, last

vars == <<heap, env, last>>

\* Largest number of GitAttributesFile values alive at once.
MaxObjs == 3

None == "None"

SLASH == "/"

STAR == "*"

GITATTRIBUTES == ".gitattributes"

----------------------------------------------------------------------------
\* String helpers (str::starts_with, ends_with, strip_suffix, contains).

StartsWith(s, p) ==
  /\ Len(p) <= Len(s)
  /\ SubSeq(s, 1, Len(p)) = p

EndsWith(s, p) ==
  /\ Len(p) <= Len(s)
  /\ SubSeq(s, Len(s) - Len(p) + 1, Len(s)) = p

Contains(s, c) == \E i \in 1..Len(s) : s[i] = c

DropFirst(s, n) == SubSeq(s, n + 1, Len(s))

DropLast(s, n) == SubSeq(s, 1, Len(s) - n)

\* Position just after the last '/', 0-based as in rfind(b"/").map(|p| p + 1);
\* 0 when the path has no slash (unwrap_or_default).
RECURSIVE RFindSlash(_, _)
RFindSlash(path, i) ==
  IF i = 0 \/ path[i] = SLASH THEN i ELSE RFindSlash(path, i - 1)

BasenamePos(path) == RFindSlash(path, Len(path))

----------------------------------------------------------------------------
\* matches(), first statement: a trailing slash marks a directory candidate.
StripDirSuffix(path) ==
  IF EndsWith(path, <<SLASH>>)
    THEN [path |-> DropLast(path, 1), is_dir |-> TRUE]
    ELSE [path |-> path, is_dir |-> FALSE]

----------------------------------------------------------------------------
\* gix_glob::parse::pattern, as run by add_patterns_buffer on each line.

IsGlobSpecial(c) == c \in {"*", "?", "[", "\\"}

\* 1-based position of the first wildcard character, 0 when there is none.
FirstWildcardPos(text) ==
  IF \E i \in 1..Len(text) : IsGlobSpecial(text[i])
    THEN CHOOSE i \in 1..Len(text) :
           /\ IsGlobSpecial(text[i])
           /\ \A j \in 1..(i - 1) : ~IsGlobSpecial(text[j])
    ELSE 0

\* The parsed pattern; ok is FALSE for a line without a usable pattern (empty,
\* or negated with '!', which attribute files reject).
ParsePattern(glob) ==
  IF glob = <<>> \/ glob[1] = "!"
    THEN [ok |-> FALSE, text |-> <<>>, mode |-> {}, first_wildcard_pos |-> 0]
  ELSE
    LET absolute == glob[1] = SLASH
        p1 == IF absolute THEN DropFirst(glob, 1) ELSE glob
        must_be_dir == EndsWith(p1, <<SLASH>>)
        p2 == IF must_be_dir THEN DropLast(p1, 1) ELSE p1
        no_sub_dir == ~Contains(p2, SLASH)
        ends_with == /\ p2 # <<>>
                     /\ p2[1] = STAR
                     /\ FirstWildcardPos(DropFirst(p2, 1)) = 0
    IN [ok |-> TRUE,
        text |-> p2,
        mode |-> (IF absolute THEN {"ABSOLUTE"} ELSE {})
                 \cup (IF must_be_dir THEN {"MUST_BE_DIR"} ELSE {})
                 \cup (IF no_sub_dir THEN {"NO_SUB_DIR"} ELSE {})
                 \cup (IF ends_with THEN {"ENDS_WITH"} ELSE {}),
        first_wildcard_pos |-> FirstWildcardPos(p2)]

----------------------------------------------------------------------------
\* gix_glob::wildmatch with Mode::NO_MATCH_SLASH_LITERAL, case sensitive:
\* does pat[i..] match text[j..]?  '?' and '*' never match a slash; a run of
\* two or more stars that forms a whole path component matches across
\* slashes, and "**/" also matches no component at all.
RECURSIVE Wild(_, _, _, _)
Wild(pat, i, text, j) ==
  IF i > Len(pat) THEN j > Len(text)
  ELSE IF pat[i] = STAR THEN
    LET stars == CHOOSE n \in 1..(Len(pat) - i + 1) :
                   /\ \A k \in i..(i + n - 1) : pat[k] = STAR
                   /\ (i + n > Len(pat) \/ pat[i + n] # STAR)
        next == i + stars
        special == /\ stars >= 2
                   /\ (i = 1 \/ pat[i - 1] = SLASH)
                   /\ (next > Len(pat) \/ pat[next] = SLASH)
    IN \/ /\ special
          /\ next <= Len(pat)
          /\ Wild(pat, next + 1, text, j)
       \/ \E k \in j..(Len(text) + 1) :
            /\ \A m \in j..(k - 1) : special \/ text[m] # SLASH
            /\ Wild(pat, next, text, k)
  ELSE IF pat[i] = "?" THEN
    /\ j <= Len(text)
    /\ text[j] # SLASH
    /\ Wild(pat, i + 1, text, j + 1)
  ELSE
    /\ j <= Len(text)
    /\ text[j] = pat[i]
    /\ Wild(pat, i + 1, text, j + 1)

\* gix_glob::Pattern::matches
PatternMatchesValue(p, value) ==
  IF p.first_wildcard_pos = 0 THEN p.text = value
  ELSE IF "ENDS_WITH" \in p.mode /\ ~Contains(value, SLASH)
    THEN EndsWith(value, DropFirst(p.text, p.first_wildcard_pos))
  ELSE /\ StartsWith(value, SubSeq(p.text, 1, p.first_wildcard_pos - 1))
       /\ Wild(p.text, 1, value, 1)

\* Mutant: the directory-only flag of a pattern is ignored.
MatchesRepoRelativePath_IgnoreMustBeDir(p, path, basename_pos, is_dir) ==
  IF "NO_SUB_DIR" \in p.mode /\ "ABSOLUTE" \notin p.mode
    THEN PatternMatchesValue(p, DropFirst(path, basename_pos))
  ELSE PatternMatchesValue(p, path)

\* gix_glob::Pattern::matches_repo_relative_path: a directory-only pattern
\* needs a directory candidate; a pattern without a slash is matched against
\* the basename, any other against the whole relative path.
MatchesRepoRelativePath(p, path, basename_pos, is_dir) ==
  IF ~is_dir /\ "MUST_BE_DIR" \in p.mode THEN FALSE
  ELSE IF "NO_SUB_DIR" \in p.mode /\ "ABSOLUTE" \notin p.mode
    THEN PatternMatchesValue(p, DropFirst(path, basename_pos))
  ELSE PatternMatchesValue(p, path)

----------------------------------------------------------------------------
\* Attribute lines.  A line is its glob and its attribute tokens; a token is
\* a record [sign, name, value] for "name", "-name", "!name", "name=value".

Plain(n) == [sign |-> "", name |-> n, value |-> None]

Neg(n) == [sign |-> "-", name |-> n, value |-> None]

Val(n, v) == [sign |-> "", name |-> n, value |-> v]

Line(glob, attrs) == [glob |-> glob, attrs |-> attrs]

\* gix_attributes::parse: the state a token assigns.
ParseAssignment(tok) ==
  [name |-> tok.name,
   state |-> IF tok.sign = "-" THEN [kind |-> "Unset", value |-> None]
             ELSE IF tok.sign = "!" THEN [kind |-> "Unspecified", value |-> None]
             ELSE IF tok.value = None THEN [kind |-> "Set", value |-> None]
             ELSE [kind |-> "Value", value |-> tok.value]]

\* The assignment of a line that decides `filter` (0: none): the assignments
\* of a matching line are pushed in order and popped last first
\* (Outcome::fill_attributes).
FilterIndex(assignments) ==
  IF \E k \in 1..Len(assignments) : assignments[k].name = "filter"
    THEN CHOOSE k \in 1..Len(assignments) :
           /\ assignments[k].name = "filter"
           /\ \A j \in (k + 1)..Len(assignments) : assignments[j].name # "filter"
    ELSE 0

\* The pattern mappings of a buffer, in file order; lines whose pattern does
\* not parse are skipped.  filter_at is where the mapping assigns `filter`
\* (the attribute ids are given when the buffer is added).
RECURSIVE BytesToPatterns(_)
BytesToPatterns(input) ==
  IF input = <<>> THEN <<>>
  ELSE LET ln == Head(input)
           p == ParsePattern(ln.glob)
           as == [k \in 1..Len(ln.attrs) |-> ParseAssignment(ln.attrs[k])]
       IN (IF ~p.ok THEN <<>>
           ELSE <<[pattern |-> p, assignments |-> as, filter_at |-> FilterIndex(as)]>>)
          \o BytesToPatterns(Tail(input))

\* The attribute names a buffer mentions (what add_patterns_buffer enters
\* into the MetadataCollection).
AttributeNames(input) ==
  UNION {{input[i].attrs[k].name : k \in 1..Len(input[i].attrs)} :
           i \in {j \in 1..Len(input) : ParsePattern(input[j].glob).ok}}

\* PathBuf::push(".gitattributes")
JoinGitattributes(prefix) ==
  IF prefix = <<>> THEN <<GITATTRIBUTES>>
  ELSE IF EndsWith(prefix, <<SLASH>>) THEN prefix \o <<GITATTRIBUTES>>
  ELSE prefix \o <<SLASH, GITATTRIBUTES>>

\* Path::parent of a source file
Parent(source) ==
  IF Len(source) >= 2 /\ source[Len(source) - 1] = SLASH
    THEN DropLast(source, 2)
    ELSE <<>>

\* gix_glob::search::pattern::List::from_bytes: the base of a list is the
\* directory of its source file relative to the root, with a trailing slash;
\* there is none (the empty string here) when no root is given, when the
\* directory is not under the root, or when that relative directory is empty.
\* `root` is an Option: <<>> for None, <<r>> for Some(r).
ListBase(source, root) ==
  IF root = <<>> THEN <<>>
  ELSE LET r == root[1]
           dir == Parent(source)
           rel == IF r = <<>> THEN dir
                  ELSE IF StartsWith(dir, r \o <<SLASH>>)
                    THEN DropFirst(dir, Len(r) + 1)
                  ELSE <<>>
       IN IF rel = <<>> THEN <<>> ELSE rel \o <<SLASH>>

\* Search::add_patterns_buffer(input, source_file, root, collection, true)
AddPatternsBuffer(search, input, source, root) ==
  Append(search, [source |-> source,
                  base |-> ListBase(source, root),
                  patterns |-> BytesToPatterns(input)])

----------------------------------------------------------------------------
\* Search::pattern_matching_relative_path with the selection ["filter"]:
\* lists are visited last to first and, inside a list, patterns last to
\* first; the first pattern that assigns `filter` and matches the path
\* decides the attribute and ends the search (Outcome::is_done).

Unspecified == [kind |-> "Unspecified", value |-> None]

NoMatch ==
  [matched |-> FALSE, state |-> Unspecified, source |-> <<>>,
   pattern |-> ParsePattern(<<>>), list |-> 0, line |-> 0]

\* Mutant: the patterns of a list are visited first to last.
RECURSIVE ScanList_Forward(_, _, _, _, _)
ScanList_Forward(list, k, rel, basename_pos, is_dir) ==
  IF k = 0 THEN NoMatch
  ELSE LET j == Len(list.patterns) - k + 1
       IN IF /\ list.patterns[j].filter_at # 0
             /\ MatchesRepoRelativePath(list.patterns[j].pattern, rel, basename_pos, is_dir)
            THEN [matched |-> TRUE,
                  state |-> list.patterns[j].assignments[list.patterns[j].filter_at].state,
                  source |-> list.source, pattern |-> list.patterns[j].pattern,
                  list |-> 0, line |-> j]
            ELSE ScanList_Forward(list, k - 1, rel, basename_pos, is_dir)

RECURSIVE ScanList(_, _, _, _, _)
ScanList(list, k, rel, basename_pos, is_dir) ==
  IF k = 0 THEN NoMatch
  ELSE IF /\ list.patterns[k].filter_at # 0
          /\ MatchesRepoRelativePath(list.patterns[k].pattern, rel, basename_pos, is_dir)
    THEN [matched |-> TRUE,
          state |-> list.patterns[k].assignments[list.patterns[k].filter_at].state,
          source |-> list.source, pattern |-> list.patterns[k].pattern,
          list |-> 0, line |-> k]
  ELSE ScanList(list, k - 1, rel, basename_pos, is_dir)

\* One list: a list with a base only sees paths under the base, and sees
\* them relative to it (strip_base_handle_recompute_basename_pos).
ListMatch(list, path, basename_pos, is_dir) ==
  IF list.base = <<>>
    THEN ScanList(list, Len(list.patterns), path, basename_pos, is_dir)
  ELSE IF ~StartsWith(path, list.base) THEN NoMatch
  ELSE ScanList(list, Len(list.patterns), DropFirst(path, Len(list.base)),
                BasenamePos(DropFirst(path, Len(list.base))), is_dir)

RECURSIVE ScanSearch(_, _, _, _, _)
ScanSearch(search, n, path, basename_pos, is_dir) ==
  IF n = 0 THEN NoMatch
  ELSE LET r == ListMatch(search[n], path, basename_pos, is_dir)
       IN IF r.matched THEN [r EXCEPT !.list = n]
          ELSE ScanSearch(search, n - 1, path, basename_pos, is_dir)

PatternMatchingRelativePath(search, collection, path, is_dir) ==
  IF "filter" \notin collection THEN NoMatch
  ELSE ScanSearch(search, Len(search), path, BasenamePos(path), is_dir)

----------------------------------------------------------------------------
\* GitAttributesFile

\* Search::new_globals: the built-in macro list, then one list per global
\* source file that exists, each without a root.
RECURSIVE AddGlobals(_, _)
AddGlobals(search, files) ==
  IF files = <<>> THEN search
  ELSE AddGlobals(AddPatternsBuffer(search, Head(files).input, Head(files).path, <<>>),
                  Tail(files))

\* impl Default for GitAttributesFile
Default(files) ==
  [search |-> AddGlobals(AddPatternsBuffer(<<>>, <<>>, <<"[builtin]">>, <<>>), files),
   collection |-> {"binary", "diff", "merge", "text"}
                  \cup UNION {AttributeNames(files[i].input) : i \in 1..Len(files)},
   ignore_filters |-> {}]

\* GitAttributesFile::new
new(ignore_filters, files) ==
  [Default(files) EXCEPT !.ignore_filters = ignore_filters]

\* GitAttributesFile::chain
chain(self, prefix, input) ==
  LET source_file == JoinGitattributes(prefix)
  IN [search |-> AddPatternsBuffer(self.search, input, source_file,
                                   IF prefix = <<>> THEN <<>> ELSE <<prefix>>),
      collection |-> self.collection \cup AttributeNames(input),
      ignore_filters |-> self.ignore_filters]

\* Mutant: the required prefix is the subdirectory without the slash.
SelectedValue_NoSlash(m, path) ==
  IF m.state.kind = "Value"
    THEN IF /\ m.source # <<>>
            /\ EndsWith(m.source, <<SLASH, GITATTRIBUTES>>)
            /\ m.source # <<GITATTRIBUTES>>
            /\ ~StartsWith(path, DropLast(m.source, 2))
           THEN <<>>
           ELSE <<m.state.value>>
    ELSE <<>>

\* The closure given to filter_map in matches(): the value of a match, unless
\* the match comes from "<subdir>/.gitattributes" and the path does not start
\* with "<subdir>/".  An Option: <<>> or <<value>>.
SelectedValue(m, path) ==
  IF m.state.kind = "Value"
    THEN IF /\ m.source # <<>>
            /\ EndsWith(m.source, <<SLASH, GITATTRIBUTES>>)
            /\ m.source # <<GITATTRIBUTES>>
            /\ ~StartsWith(path, DropLast(m.source, 2) \o <<SLASH>>)
           THEN <<>>
           ELSE <<m.state.value>>
    ELSE <<>>

\* The outcome of the search that matches() runs for a path argument.
Outcome(self, path) ==
  LET c == StripDirSuffix(path)
  IN PatternMatchingRelativePath(self.search, self.collection, c.path, c.is_dir)

\* GitAttributesFile::matches
matches(self, path) ==
  LET v == SelectedValue(Outcome(self, path), StripDirSuffix(path).path)
  IN \E i \in 1..Len(v) : v[i] \in self.ignore_filters

----------------------------------------------------------------------------
\* Inputs.

FilterSets == {{"lfs"}, {"lfs", "other"}}

\* "*.t filter=other" / "*.t filter=lfs"
General ==
  <<Line(<<"*", ".", "t">>, <<Val("filter", "other")>>),
    Line(<<"*", ".", "t">>, <<Val("filter", "lfs")>>)>>

\* "x.t filter=other"
Specific == <<Line(<<"x", ".", "t">>, <<Val("filter", "other")>>)>>

\* "d/* filter=lfs" / "d/ filter=lfs"
DirGlobs ==
  <<Line(<<"d", "/", "*">>, <<Val("filter", "lfs")>>),
    Line(<<"d", "/">>, <<Val("filter", "lfs")>>)>>

\* "*.b filter=lfs diff=binary" / "i.b -filter", then the lines of DirGlobs
Negated ==
  <<Line(<<"*", ".", "b">>, <<Val("filter", "lfs"), Val("diff", "binary")>>),
    Line(<<"i", ".", "b">>, <<Neg("filter")>>)>> \o DirGlobs

Root == <<>>

Sub == <<"s">>

\* A second directory, next to Sub.
Sibling == <<"s", "2">>

\* The (prefix, contents) pairs chain is called with.
ChainInputs ==
  {<<Root, General>>, <<Root, Negated>>,
   <<Sub, General>>, <<Sub, Specific>>, <<Sub, DirGlobs>>,
   <<Sibling, Negated>>}

Paths ==
  {<<"x", ".", "t">>, <<"s", "/", "x", ".", "t">>, <<"s", "2", "/", "x", ".", "t">>,
   <<"f", ".", "b">>, <<"i", ".", "b">>, <<"s", "/", "f", ".", "b">>,
   <<"d", "/">>, <<"d">>, <<"d", "/", "x">>, <<"s", "/", "d", "/", "x">>}

\* The global attribute sources of the machine: none, or a user-global file
\* "h/g/a" holding "*.b filter=lfs".
EnvChoices ==
  {<<>>,
   <<[path |-> <<"h", "/", "g", "/", "a">>,
      input |-> <<Line(<<"*", ".", "b">>, <<Val("filter", "lfs")>>)>>]>>}

\* The files chain_with_file is pointed at, and the prefix given with each.
Files == {"absent", "directory", "regular", "unreadable"}

FilePrefix(f) == IF f = "regular" THEN Root ELSE Sub

\* Path::is_file
IsFile(f) == f \in {"regular", "unreadable"}

\* std::fs::read: an Option, <<>> for an error
FsRead(f) == IF f = "regular" THEN <<General>> ELSE <<>>

----------------------------------------------------------------------------
\* State: heap is the sequence of GitAttributesFile values built so far (an
\* Arc is an index into it), env the global attribute files of the machine,
\* last the last call and what it returned.

NoResults == [x \in Paths |-> FALSE]

NoCall ==
  [op |-> "none", recv |-> 0, obj |-> 0, prefix |-> <<>>, input |-> <<>>,
   file |-> "", results |-> NoResults, err |-> "", err_path |-> ""]

Init ==
  /\ heap = <<>>
  /\ env \in EnvChoices
  /\ last = NoCall

\* The base classifier of a run is made once; every other one is chained.
New(ignore_filters) ==
  /\ heap = <<>>
  /\ heap' = Append(heap, new(ignore_filters, env))
  /\ last' = [NoCall EXCEPT !.op = "new", !.obj = Len(heap) + 1]
  /\ UNCHANGED env

\* Mutant: chain adds the new list to the receiver's own search as well.
Chain_InPlace(recv, prefix, input) ==
  /\ Len(heap) < MaxObjs
  /\ heap' = Append([heap EXCEPT ![recv] = chain(heap[recv], prefix, input)],
                    chain(heap[recv], prefix, input))
  /\ last' = [NoCall EXCEPT !.op = "chain", !.recv = recv, !.obj = Len(heap) + 1,
                            !.prefix = prefix, !.input = input]
  /\ UNCHANGED env

Chain(recv, prefix, input) ==
  /\ Len(heap) < MaxObjs
  /\ heap' = Append(heap, chain(heap[recv], prefix, input))
  /\ last' = [NoCall EXCEPT !.op = "chain", !.recv = recv, !.obj = Len(heap) + 1,
                            !.prefix = prefix, !.input = input]
  /\ UNCHANGED env

\* Mutant: the file is read without asking whether it is a regular file.
ChainWithFile_NoIsFile(recv, prefix, file) ==
  /\ IF FsRead(file) = <<>>
       THEN /\ heap' = heap
            /\ last' = [NoCall EXCEPT !.op = "chain_with_file", !.recv = recv,
                                      !.prefix = prefix, !.file = file,
                                      !.err = "ReadFile", !.err_path = file]
       ELSE /\ Len(heap) < MaxObjs
            /\ heap' = Append(heap, chain(heap[recv], prefix, FsRead(file)[1]))
            /\ last' = [NoCall EXCEPT !.op = "chain_with_file", !.recv = recv,
                                      !.obj = Len(heap) + 1, !.prefix = prefix,
                                      !.input = FsRead(file)[1], !.file = file]
  /\ UNCHANGED env

\* GitAttributesFile::chain_with_file.  obj is the classifier returned (the
\* receiver itself when the path is no regular file), err the error.
ChainWithFile(recv, prefix, file) ==
  /\ IF IsFile(file)
       THEN IF FsRead(file) = <<>>
              THEN /\ heap' = heap
                   /\ last' = [NoCall EXCEPT !.op = "chain_with_file", !.recv = recv,
                                             !.prefix = prefix, !.file = file,
                                             !.err = "ReadFile", !.err_path = file]
              ELSE /\ Len(heap) < MaxObjs
                   /\ heap' = Append(heap, chain(heap[recv], prefix, FsRead(file)[1]))
                   /\ last' = [NoCall EXCEPT !.op = "chain_with_file", !.recv = recv,
                                             !.obj = Len(heap) + 1, !.prefix = prefix,
                                             !.input = FsRead(file)[1], !.file = file]
       ELSE /\ heap' = heap
            /\ last' = [NoCall EXCEPT !.op = "chain_with_file", !.recv = recv,
                                      !.obj = recv, !.prefix = prefix, !.file = file]
  /\ UNCHANGED env

\* matches() called on one classifier for each path of Paths (as
\* test_matching does for its list of files); the results are kept per path.
Matches(recv) ==
  /\ last' = [NoCall EXCEPT !.op = "matches", !.recv = recv,
                            !.results = [x \in Paths |-> matches(heap[recv], x)]]
  /\ UNCHANGED <<heap, env>>

Next ==
  \/ \E f \in FilterSets : New(f)
  \/ \E r \in 1..Len(heap), in \in ChainInputs : Chain(r, in[1], in[2])
  \/ \E r \in 1..Len(heap), f \in Files : ChainWithFile(r, FilePrefix(f), f)
  \/ \E r \in 1..Len(heap) : Matches(r)

Spec == Init /\ [][Next]_vars

----------------------------------------------------------------------------
\* Notions the properties below are stated with.

\* `last` holds the results of matches() on Self, one per path.
Called == last.op = "matches"

Self == heap[last.recv]

\* The directory a list was chained at, read off its source file:
\* "Q/.gitattributes" gives Q; the root file and the global sources give "".
LayerPrefix(source) ==
  IF EndsWith(source, <<SLASH, GITATTRIBUTES>>) THEN DropLast(source, 2) ELSE <<>>

\* The candidate c is the directory q itself or lies below it.
Under(q, c) ==
  \/ StartsWith(c.path, q \o <<SLASH>>)
  \/ (c.path = q /\ c.is_dir)

\* The lines of a classifier that assign `filter`, as <<list, line>>, and
\* their order of loading.
Positions(self) ==
  UNION {{<<n, k>> : k \in {j \in 1..Len(self.search[n].patterns) :
                              self.search[n].patterns[j].filter_at # 0}} :
           n \in 1..Len(self.search)}

Later(p, q) == q[1] > p[1] \/ (q[1] = p[1] /\ q[2] > p[2])

StateAt(self, p) ==
  self.search[p[1]].patterns[p[2]].assignments[self.search[p[1]].patterns[p[2]].filter_at].state

\* The glob of line p matches the path x.
GlobMatches(self, p, x) ==
  MatchesRepoRelativePath(self.search[p[1]].patterns[p[2]].pattern,
                          StripDirSuffix(x).path,
                          BasenamePos(StripDirSuffix(x).path),
                          StripDirSuffix(x).is_dir)

\* Line p applies to the path x: its glob matches and x lies below the
\* directory its list was chained at (any path, for the root and the globals).
Applies(self, p, x) ==
  /\ \/ LayerPrefix(self.search[p[1]].source) = <<>>
     \/ StartsWith(StripDirSuffix(x).path,
                   LayerPrefix(self.search[p[1]].source) \o <<SLASH>>)
  /\ GlobMatches(self, p, x)

InIgnoreSet(state, self) ==
  state.kind = "Value" /\ state.value \in self.ignore_filters

----------------------------------------------------------------------------
C2_ScopeContainment ==
  Called =>
    \A x \in Paths :
      (last.results[x] /\ LayerPrefix(Outcome(Self, x).source) # <<>>)
        => Under(LayerPrefix(Outcome(Self, x).source), StripDirSuffix(x))

\* C2 witness: a path matched through a list chained at a non-empty prefix.
C2_Witness ==
  /\ Called
  /\ \E x \in Paths :
       last.results[x] /\ LayerPrefix(Outcome(Self, x).source) # <<>>

\* C3: chaining a list at a non-empty prefix Q changes matches(x) for no path
\* x outside Q.
C3_NoEffectOutsidePrefix ==
  (last.op = "chain" /\ last.prefix # <<>>) =>
    \A x \in Paths :
      ~Under(last.prefix, StripDirSuffix(x))
        => (matches(heap[last.obj], x) <=> matches(heap[last.recv], x))

\* C4: when two lines that apply to a path assign filter=A and, later in load
\* order, filter=B, and no line after B applies, matches(path) is true
\* exactly when B is in the ignore-filter set.
C4_LastWins ==
  Called =>
    \A x \in Paths : \A a, b \in Positions(Self) :
      ( /\ Later(a, b)
        /\ Applies(Self, a, x) /\ StateAt(Self, a).kind = "Value"
        /\ Applies(Self, b, x) /\ StateAt(Self, b).kind = "Value"
        /\ \A p \in Positions(Self) : Later(b, p) => ~Applies(Self, p, x) )
      => (last.results[x] <=> InIgnoreSet(StateAt(Self, b), Self))

\* The case of C5: for the path x a line a assigns a filter of the ignore set,
\* a later line k carries -filter, both apply, and no line after k that
\* applies assigns a value.
NegatedAfter(self, a, k, x) ==
  /\ Later(a, k)
  /\ Applies(self, a, x) /\ InIgnoreSet(StateAt(self, a), self)
  /\ Applies(self, k, x) /\ StateAt(self, k).kind = "Unset"
  /\ \A p \in Positions(self) :
       (Later(k, p) /\ Applies(self, p, x)) => StateAt(self, p).kind # "Value"

DirOnlyOnTop(self) ==
  LET top == self.search[Len(self.search)]
  IN /\ top.source = <<GITATTRIBUTES>>
     /\ top.patterns # <<>>
     /\ top.patterns[Len(top.patterns)].pattern = ParsePattern(<<"d", SLASH>>)
     /\ top.patterns[Len(top.patterns)].filter_at # 0
     /\ StateAt(self, <<Len(self.search), Len(top.patterns)>>)
          = [kind |-> "Value", value |-> "lfs"]

\* C6: a match decided by a pattern with a trailing slash is a match of a
\* path argument ending in "/"; with "d/ filter=lfs", matches("d/") is true
\* (lfs ignored) and matches("d") is false.
C6_DirectoryOnly ==
  Called =>
    /\ \A x \in Paths :
         (last.results[x] /\ "MUST_BE_DIR" \in Outcome(Self, x).pattern.mode)
           => EndsWith(x, <<SLASH>>)
    /\ DirOnlyOnTop(Self) =>
         /\ last.results[<<"d", SLASH>>] <=> "lfs" \in Self.ignore_filters
         /\ ~last.results[<<"d">>]

\* C6 witness: "d/" matched by the directory-only pattern.
C6_Witness ==
  /\ Called
  /\ DirOnlyOnTop(Self)
  /\ last.results[<<"d", SLASH>>]
  /\ "MUST_BE_DIR" \in Outcome(Self, <<"d", SLASH>>).pattern.mode

\* C7: no call changes a classifier that exists; chain returns a new one with
\* the receiver's ignore-filter set and the receiver's lists plus one.
C7_ReceiverImmutable ==
  [][ /\ Len(heap') >= Len(heap)
      /\ \A i \in 1..Len(heap) : heap'[i] = heap[i]
      /\ (last'.op = "chain" /\ Len(heap') > Len(heap)) =>
           /\ last'.obj = Len(heap')
           /\ heap'[last'.obj].ignore_filters = heap[last'.recv].ignore_filters
           /\ Len(heap'[last'.obj].search) = Len(heap[last'.recv].search) + 1
           /\ SubSeq(heap'[last'.obj].search, 1, Len(heap[last'.recv].search))
                = heap[last'.recv].search ]_vars

\* C7 witness: two classifiers chained from the same base, each with its own
\* list only.
C7_Witness ==
  /\ last.op = "chain"
  /\ last.recv = 1
  /\ last.obj = 3
  /\ Len(heap[2].search) = Len(heap[1].search) + 1
  /\ Len(heap[3].search) = Len(heap[1].search) + 1
  /\ heap[2] # heap[3]

\* C8: new(filters).matches(path) is false for every path, whatever the global
\* attribute sources hold.
C8_EmptyStackNeutral ==
  (Called /\ Self = new(Self.ignore_filters, env)) =>
    \A x \in Paths : ~last.results[x]

\* C9: chain_with_file returns the receiver when the path is no regular file,
\* chain(prefix, contents) when the file is read, and ReadFile with the path
\* when a regular file cannot be read; chain returns no error.
C9_ChainWithFileOutcomes ==
  [][ /\ (last'.op = "chain_with_file" /\ last' # last) =>
           /\ ~IsFile(last'.file) =>
                /\ last'.err = ""
                /\ last'.obj = last'.recv
                /\ heap' = heap
           /\ (IsFile(last'.file) /\ FsRead(last'.file) # <<>>) =>
                /\ last'.err = ""
                /\ last'.obj = Len(heap')
                /\ heap' = Append(heap, chain(heap[last'.recv], last'.prefix,
                                              FsRead(last'.file)[1]))
           /\ last'.err # "" =>
                /\ last'.err = "ReadFile"
                /\ last'.err_path = last'.file
                /\ IsFile(last'.file)
                /\ FsRead(last'.file) = <<>>
                /\ last'.obj = 0
                /\ heap' = heap
      /\ last'.op = "chain" => last'.err = "" ]_vars

\* C9 witness: chain_with_file on a directory has returned the receiver.
C9_Witness ==
  /\ last.op = "chain_with_file"
  /\ last.file = "directory"
  /\ last.obj = last.recv
  /\ last.err = ""

\* C10: the globs of a list chained at a non-empty prefix Q are matched
\* against the path with Q + "/" stripped: for a path below Q, the last line
\* of the newest list whose glob matches the stripped path decides.
C10_RelativeCandidate ==
  Called =>
    \A x \in Paths :
      LET top == Self.search[Len(Self.search)]
          q == LayerPrefix(top.source)
          c == StripDirSuffix(x)
          rel == DropFirst(c.path, Len(q) + 1)
          r == ScanList(top, Len(top.patterns), rel, BasenamePos(rel), c.is_dir)
      IN (q # <<>> /\ StartsWith(c.path, q \o <<SLASH>>) /\ r.matched)
           => (last.results[x] <=> InIgnoreSet(r.state, Self))

\* The number of directories in the prefix a list was chained at: 0 for the
\* root file and the global sources.
ListDepth(list) ==
  IF LayerPrefix(list.source) = <<>> THEN 0
  ELSE 1 + Cardinality({i \in 1..Len(LayerPrefix(list.source)) :
                          LayerPrefix(list.source)[i] = SLASH})

\* List n of the classifier has a line that assigns `filter` and applies to x.
ListApplies(self, n, x) ==
  \E p \in Positions(self) : p[1] = n /\ Applies(self, p, x)

\* C11: when two lists both apply to a path and both assign `filter`, the one
\* chained at the shallower prefix does not decide, whichever was chained
\* first; of two lists of equal depth the earlier one does not decide.
C11_DepthPrecedence ==
  Called =>
    \A x \in Paths : \A m, n \in 1..Len(Self.search) :
      (m # n /\ ListApplies(Self, m, x) /\ ListApplies(Self, n, x)) =>
        /\ ListDepth(Self.search[m]) > ListDepth(Self.search[n])
             => Outcome(Self, x).list # n
        /\ (ListDepth(Self.search[m]) = ListDepth(Self.search[n]) /\ m < n)
             => Outcome(Self, x).list # m

\* List l was chained at the root (or is a global source), or x lies below
\* the directory it was chained at.
Encloses(l, x) ==
  \/ LayerPrefix(l.source) = <<>>
  \/ StartsWith(StripDirSuffix(x).path, LayerPrefix(l.source) \o <<SLASH>>)

\* The classifier with only the lists that enclose x, in the same order.
EnclosingLayers(self, x) ==
  LET Keep(l) == Encloses(l, x)
  IN [self EXCEPT !.search = SelectSeq(self.search, Keep)]

\* x lies below the prefix of at least one list chained at a directory, and no
\* line of such a list that applies to x assigns `filter`.
DeeperSilent(self, x) ==
  /\ \E n \in 1..Len(self.search) :
       LayerPrefix(self.search[n].source) # <<>> /\ Encloses(self.search[n], x)
  /\ \A n \in 1..Len(self.search) :
       LayerPrefix(self.search[n].source) # <<>> => ~ListApplies(self, n, x)

\* C12: for a path below the prefix of deeper lists none of whose applying
\* lines assigns `filter`, matches gives what the enclosing lists give; with
\* root "*.t filter=lfs" and a list at s that holds other globs only, x.t,
\* s2/x.t and s/x.t are matched.
C12_Inheritance ==
  Called =>
    /\ \A x \in Paths :
         DeeperSilent(Self, x)
           => (last.results[x] <=> matches(EnclosingLayers(Self, x), x))
    /\ Self = chain(chain(new({"lfs"}, env), Root, General), Sub, DirGlobs) =>
         /\ last.results[<<"x", ".", "t">>]
         /\ last.results[<<"s", "2", "/", "x", ".", "t">>]
         /\ last.results[<<"s", "/", "x", ".", "t">>]

====
